---- MODULE Spec2Model ----
(***************************************************************************)
(* rcxwatcher (src/watcher.py): a batch driver that reads a list of raw    *)
(* instrument file paths, links each file into a Galaxy data library and   *)
(* invokes a conversion workflow for the files that are not converted yet. *)
(*                                                                         *)
(* Paths are TLA+ strings; the os.path functions the script calls are      *)
(* operators over the characters of those strings.  The Galaxy server is   *)
(* the pair (remote_folders, remote_datasets); every call the script makes *)
(* on it is appended to call_log.                                          *)
(***************************************************************************)
EXTENDS Integers, Sequences, FiniteSets, TLC

(***************************************************************************)
(* Program constants                                                       *)
(***************************************************************************)
EXPORT_PATH_PREFIX == "/mnt/sally/000020-Shares/rcx-da/"
LIBRARY_ROOT_FOLDER_ID == "F2f94e8ae9edff68a"
MZML_FOLDER_NAME == "mzML_profile"
ALLOWED_RAW_FILES_FOLDER_NAMES == <<"RAW_profile", "RAW", "raw">>
CONVERSION_WORKFLOW_ID == "13cea0e6d733b865"
THERMO_FILE_TYPE == "thermo.raw"
MZML_FILE_TYPE == "mzml"
JSON_FILE_TYPE == "json"

(***************************************************************************)
(* Python string primitives                                                *)
(***************************************************************************)
\* s[i] for a 1-based index
CharAt(s, i) == SubSeq(s, i, i)

\* s[n:] for 0 <= n
DropFirst(s, n) == SubSeq(s, n + 1, Len(s))

\* s[:-n] for n > 0
DropLast(s, n) == SubSeq(s, 1, Len(s) - n)

\* s.startswith(p)
StartsWith(s, p) == Len(p) <= Len(s) /\ SubSeq(s, 1, Len(p)) = p

\* s.endswith(p)
EndsWith(s, p) == Len(p) <= Len(s) /\ SubSeq(s, Len(s) - Len(p) + 1, Len(s)) = p

\* s.rfind(sub): the highest 0-based index at which sub occurs in s, else -1
RFind(s, sub) ==
    LET hits == {k \in 0..(Len(s) - Len(sub)) : SubSeq(s, k + 1, k + Len(sub)) = sub}
    IN  IF hits = {} THEN -1 ELSE CHOOSE k \in hits : \A h \in hits : h <= k

\* s.lstrip(chars) for a set of one-character strings
RECURSIVE LStrip(_, _)
LStrip(s, chars) ==
    IF Len(s) > 0 /\ CharAt(s, 1) \in chars THEN LStrip(DropFirst(s, 1), chars) ELSE s

\* s.rstrip(chars)
RECURSIVE RStrip(_, _)
RStrip(s, chars) ==
    IF Len(s) > 0 /\ CharAt(s, Len(s)) \in chars THEN RStrip(DropLast(s, 1), chars) ELSE s

\* the characters str.strip() removes, as far as input lines carry them
Whitespace == {" ", "\t", "\n", "\r"}

\* line.strip().strip("\n")
StripLine(line) ==
    LET t == RStrip(LStrip(line, Whitespace), Whitespace)
    IN  RStrip(LStrip(t, {"\n"}), {"\n"})

\* the index of the first separator of s at or after position i, Len(s) + 1 if none
NextSep(s, i) ==
    LET seps == {j \in i..Len(s) : CharAt(s, j) = "/"}
    IN  IF seps = {} THEN Len(s) + 1 ELSE CHOOSE j \in seps : \A h \in seps : j <= h

\* s.split("/") from position i on: the pieces between separators, empty pieces kept
RECURSIVE SplitSepFrom(_, _)
SplitSepFrom(s, i) ==
    LET e == NextSep(s, i)
    IN  IF e > Len(s) THEN <<SubSeq(s, i, Len(s))>>
        ELSE <<SubSeq(s, i, e - 1)>> \o SplitSepFrom(s, e + 1)

SplitSep(s) == SplitSepFrom(s, 1)

\* "/".join(comps)
RECURSIVE JoinSep(_)
JoinSep(comps) ==
    IF Len(comps) = 0 THEN ""
    ELSE IF Len(comps) = 1 THEN comps[1]
    ELSE comps[1] \o "/" \o JoinSep(Tail(comps))

(***************************************************************************)
(* os.path (posixpath)                                                     *)
(***************************************************************************)
\* os.path.split(p): <<head, tail>>, tail is what follows the last slash
PathSplit(p) ==
    LET i    == RFind(p, "/") + 1
        head == SubSeq(p, 1, i)
        tail == SubSeq(p, i + 1, Len(p))
    IN  IF head # "" /\ RStrip(head, {"/"}) # "" THEN <<RStrip(head, {"/"}), tail>>
        ELSE <<head, tail>>

\* the component loop of os.path.normpath
RECURSIVE NormComps(_, _, _)
NormComps(comps, new_comps, initial_slashes) ==
    IF Len(comps) = 0 THEN new_comps
    ELSE LET comp == Head(comps) IN
         IF comp \in {"", "."} THEN NormComps(Tail(comps), new_comps, initial_slashes)
         ELSE IF \/ comp # ".."
                 \/ (initial_slashes = 0 /\ Len(new_comps) = 0)
                 \/ (Len(new_comps) > 0 /\ new_comps[Len(new_comps)] = "..")
              THEN NormComps(Tail(comps), Append(new_comps, comp), initial_slashes)
         ELSE IF Len(new_comps) > 0
              THEN NormComps(Tail(comps), SubSeq(new_comps, 1, Len(new_comps) - 1), initial_slashes)
         ELSE NormComps(Tail(comps), new_comps, initial_slashes)

\* os.path.normpath(path)
NormPath(path) ==
    IF path = "" THEN "."
    ELSE LET initial_slashes ==
                 IF ~StartsWith(path, "/") THEN 0
                 ELSE IF StartsWith(path, "//") /\ ~StartsWith(path, "///") THEN 2
                 ELSE 1
             joined == JoinSep(NormComps(SplitSep(path), <<>>, initial_slashes))
             out == IF initial_slashes = 0 THEN joined
                    ELSE IF initial_slashes = 1 THEN "/" \o joined
                    ELSE "//" \o joined
         IN  IF out = "" THEN "." ELSE out

\* os.path.join(a, b)
PathJoin2(a, b) ==
    IF StartsWith(b, "/") THEN b
    ELSE IF a = "" \/ EndsWith(a, "/") THEN a \o b
    ELSE a \o "/" \o b

\* os.path.join(a, b, c, d)
PathJoin4(a, b, c, d) == PathJoin2(PathJoin2(PathJoin2(a, b), c), d)

\* the non-empty components of an absolute, normalized path
PathList(p) == SelectSeq(SplitSep(p), LAMBDA c : c # "")

\* len(os.path.commonprefix([start_list, path_list]))
RECURSIVE CommonLen(_, _)
CommonLen(a, b) ==
    IF Len(a) = 0 \/ Len(b) = 0 \/ Head(a) # Head(b) THEN 0
    ELSE 1 + CommonLen(Tail(a), Tail(b))

\* os.path.relpath(path, start) for absolute path and start
RelPath(path, start) ==
    LET start_list == PathList(NormPath(start))
        path_list  == PathList(NormPath(path))
        i          == CommonLen(start_list, path_list)
        rel_list   == [k \in 1..(Len(start_list) - i) |-> ".."]
                          \o SubSeq(path_list, i + 1, Len(path_list))
    IN  IF Len(rel_list) = 0 THEN "." ELSE JoinSep(rel_list)

(***************************************************************************)
(* Pure functions of the script                                            *)
(***************************************************************************)
\* get_mzml_path with the parent directory kept instead of replaced
get_mzml_path_keeps_parent(raw_file_path) ==
    LET raw_dir  == PathSplit(raw_file_path)[1]
        raw_file == PathSplit(raw_file_path)[2]
    IN  PathJoin4(EXPORT_PATH_PREFIX, raw_dir, MZML_FOLDER_NAME,
                  DropLast(raw_file, 4) \o ".mzml")

\* get_mzml_path(raw_file_path)
get_mzml_path(raw_file_path) ==
    LET raw_dir  == PathSplit(raw_file_path)[1]
        raw_file == PathSplit(raw_file_path)[2]
    IN  PathJoin4(EXPORT_PATH_PREFIX, PathSplit(raw_dir)[1], MZML_FOLDER_NAME,
                  DropLast(raw_file, 4) \o ".mzml")

\* the loop with is_allowed assigned, not only raised, in every iteration
RECURSIVE AllowedLoopLastWins(_, _, _)
AllowedLoopLastWins(path, k, is_allowed) ==
    IF k > Len(ALLOWED_RAW_FILES_FOLDER_NAMES) THEN is_allowed
    ELSE AllowedLoopLastWins(path, k + 1,
                             RFind(path, ALLOWED_RAW_FILES_FOLDER_NAMES[k]) # -1)

\* the loop of is_allowed_raw_path over ALLOWED_RAW_FILES_FOLDER_NAMES
RECURSIVE AllowedLoop(_, _, _)
AllowedLoop(path, k, is_allowed) ==
    IF k > Len(ALLOWED_RAW_FILES_FOLDER_NAMES) THEN is_allowed
    ELSE AllowedLoop(path, k + 1,
                     IF RFind(path, ALLOWED_RAW_FILES_FOLDER_NAMES[k]) # -1
                     THEN TRUE ELSE is_allowed)

\* is_allowed_raw_path searching the whole path, file name included
is_allowed_raw_path_whole(raw_file_path) ==
    AllowedLoop(NormPath(raw_file_path), 1, FALSE)

\* is_allowed_raw_path(raw_file_path)
is_allowed_raw_path(raw_file_path) ==
    LET raw_dir == PathSplit(raw_file_path)[1]
        path    == NormPath(raw_dir)
    IN  AllowedLoop(path, 1, FALSE)

\* the two paths ensure_converted_links links, in order
mzml_path_of(raw_file_path) == RelPath(get_mzml_path(raw_file_path), EXPORT_PATH_PREFIX)

json_path_of(raw_file_path) == DropLast(mzml_path_of(raw_file_path), 5) \o ".json"

\* main: raw_file_path = os.path.normpath(line.strip().strip("\n"))
ReadPath(line) == NormPath(StripLine(line))

(***************************************************************************)
(* Bounds and input sets                                                   *)
(***************************************************************************)
MaxLines == 2

\* the lines an input list is drawn from
InputLines == {"raw/x.raw\n", " ./raws//B/y.raw\n", "A/B/raw.raw\n"}

RawLists == UNION {[1..n -> InputLines] : n \in 0..MaxLines}

\* the converted files that may or may not exist locally: get_mzml_path of the
\* accepted lines
LocalFiles == {"/mnt/sally/000020-Shares/rcx-da/mzML_profile/x.mzml",
               "/mnt/sally/000020-Shares/rcx-da/raws/mzML_profile/y.mzml"}

VARIABLES
    import_raw_only,      \* args.import_raw_only, as its truth value
    import_results_only,  \* args.import_results_only, as its truth value
    raw_list,             \* the lines of the input file
    local_files,          \* the paths os.path.exists answers True for
    remote_folders,       \* the library's folders on the server, in listing order
    remote_datasets,      \* the library's datasets on the server, in listing order
    initial_library,      \* the library as it was when the run started
    library_folders,      \* the folder index fetched at startup
    pc,                   \* where the run is
    line_no,              \* index of the line main is handling
    entries,              \* per handled line: its path and what main decided
    raw_file_path,        \* main's raw_file_path
    file_path,            \* ensure_library_link's file_path
    file_type,            \* ensure_library_link's file_type
    after,                \* what follows the return of ensure_library_link
    folders,              \* link_to_data_library's remaining components
    parent_folder_id,     \* link_to_data_library's parent_folder_id
    remote_path,          \* link_to_data_library's remote_path
    library_dataset,      \* the dataset ensure_library_link returns
    ensure_no,            \* number of ensure_library_link calls so far
    call_log,             \* every call made on the server, in order
    run_no                \* how many times the script has been started

vars == <<import_raw_only, import_results_only, raw_list, local_files, initial_library,
          remote_folders, remote_datasets, library_folders, pc, line_no, entries,
          raw_file_path, file_path, file_type, after, folders, parent_folder_id,
          remote_path, library_dataset, ensure_no, call_log, run_no>>

\* what a run is started with and never changes
args == <<import_raw_only, import_results_only, raw_list, local_files, initial_library,
          run_no>>
remote == <<remote_folders, remote_datasets>>
link_locals == <<folders, parent_folder_id, remote_path>>

\* Python's None, for a library dataset
None == [id |-> "None", name |-> ""]

(***************************************************************************)
(* The Galaxy server                                                       *)
(***************************************************************************)
FolderId(n) == "F" \o ToString(n)
DatasetId(n) == "D" \o ToString(n)

\* the full path a folder named folder_name gets under a folder with path base_name
ChildName(base_name, folder_name) ==
    IF base_name = "/" THEN "/" \o folder_name ELSE base_name \o "/" \o folder_name

RootFolder == [id |-> LIBRARY_ROOT_FOLDER_ID, name |-> "/", base |-> ""]

\* gi.libraries.get_folders(library_id): every folder, as id and full path
ListFolders(fs) == [k \in 1..Len(fs) |-> [id |-> fs[k].id, name |-> fs[k].name]]

\* gi.libraries.get_folders(library_id, name=name)
FoldersNamed(fs, name) == SelectSeq(fs, LAMBDA f : f.name = name)

\* gi.libraries.get_folders(library_id, folder_id=id)
FoldersWithId(fs, id) == SelectSeq(fs, LAMBDA f : f.id = id)

\* gi.libraries.create_folder(library_id, folder_name, base_folder_id): the new folder
NewFolder(fs, folder_name, base_folder_id) ==
    [id   |-> FolderId(Len(fs)),
     name |-> ChildName(FoldersWithId(fs, base_folder_id)[1].name, folder_name),
     base |-> base_folder_id]

\* gi.libraries.upload_from_galaxy_filesystem(...): the new dataset, named after the file
NewDataset(ds, filesystem_path, folder_id, ftype) ==
    [id |-> DatasetId(Len(ds) + 1), name |-> PathSplit(filesystem_path)[2],
     folder_id |-> folder_id, file_type |-> ftype]

\* gi.folders.show_folder(folder_id, contents=True)["folder_contents"]
FolderContents(ds, folder_id) ==
    LET inside == SelectSeq(ds, LAMBDA d : d.folder_id = folder_id)
    IN  [k \in 1..Len(inside) |-> [id |-> inside[k].id, name |-> inside[k].name]]

\* one entry of call_log
Call(op, name, folder_id, ftype, dataset_id, result) ==
    [op |-> op, name |-> name, folder_id |-> folder_id, file_type |-> ftype,
     dataset_id |-> dataset_id, result |-> result, line |-> line_no, ensure |-> ensure_no,
     file |-> file_path]

Ids(recs) == [k \in 1..Len(recs) |-> recs[k].id]

(***************************************************************************)
(* get_library_dataset                                                     *)
(***************************************************************************)
\* the inner loop: the first item of folder_contents named file_name, else the
\* value library_dataset had before the loop
RECURSIVE ScanContents(_, _, _)
ScanContents(folder_contents, file_name, library_dataset_in) ==
    IF Len(folder_contents) = 0 THEN library_dataset_in
    ELSE IF file_name = Head(folder_contents).name THEN Head(folder_contents)
    ELSE ScanContents(Tail(folder_contents), file_name, library_dataset_in)

\* the outer loop over library_folders from position k on; found is the value of
\* library_dataset so far and shown the folders show_folder was called on
RECURSIVE ScanFolders(_, _, _, _, _, _)
ScanFolders(index, ds, file_dir, file_name, found, shown) ==
    IF Len(index) = 0 THEN [dataset |-> found, shown |-> shown]
    ELSE LET folder == Head(index) IN
         IF file_dir = LStrip(folder.name, {"/"})
         THEN ScanFolders(Tail(index), ds, file_dir, file_name,
                          ScanContents(FolderContents(ds, folder.id), file_name, found),
                          Append(shown, folder.id))
         ELSE ScanFolders(Tail(index), ds, file_dir, file_name, found, shown)

\* get_library_dataset taking the directory as the resolver names it, with the
\* leading slash
get_library_dataset_slash_dir(index, ds, path) ==
    ScanFolders(index, ds, "/" \o PathSplit(path)[1], PathSplit(path)[2], None, <<>>)

\* get_library_dataset(file_path) against the startup index and the server's datasets
get_library_dataset(index, ds, path) ==
    ScanFolders(index, ds, PathSplit(path)[1], PathSplit(path)[2], None, <<>>)

\* is_converted probing the raw file itself instead of its mzml path
is_converted_probes_raw(path) == PathJoin2(EXPORT_PATH_PREFIX, path) \in local_files

\* is_converted(raw_file_path)
is_converted(path) == get_mzml_path(path) \in local_files

(***************************************************************************)
(* The libraries a run may start from: what earlier runs and other users   *)
(* have left on the server                                                 *)
(***************************************************************************)
\* the library after folder_name is created under the folder with id base_folder_id
WithFolder(lib, folder_name, base_folder_id) ==
    [lib EXCEPT !.folders = Append(@, NewFolder(@, folder_name, base_folder_id))]

\* the library after a file named name is linked into the folder with id folder_id
WithDataset(lib, name, folder_id) ==
    [lib EXCEPT !.datasets = Append(@, NewDataset(@, name, folder_id, "auto"))]

EmptyLibrary == [folders |-> <<RootFolder>>, datasets |-> <<>>]

\* the folder raw exists
LibRaw == WithFolder(EmptyLibrary, "raw", LIBRARY_ROOT_FOLDER_ID)

\* two folders raw exist
LibRawTwice == WithFolder(LibRaw, "raw", LIBRARY_ROOT_FOLDER_ID)

\* the folder mzML_profile exists
LibMzml == WithFolder(EmptyLibrary, MZML_FOLDER_NAME, LIBRARY_ROOT_FOLDER_ID)

\* the folder raws exists
LibRaws == WithFolder(EmptyLibrary, "raws", LIBRARY_ROOT_FOLDER_ID)

\* the folders raws and raws/B exist
LibRawsB == WithFolder(LibRaws, "B", FolderId(1))

\* two folders mzML_profile exist
LibMzmlTwice == WithFolder(LibMzml, MZML_FOLDER_NAME, LIBRARY_ROOT_FOLDER_ID)

InitialLibraries ==
    { EmptyLibrary,
      LibRaw,
      WithDataset(LibRaw, "x.raw", FolderId(1)),
      WithDataset(WithDataset(LibRaw, "x.raw", FolderId(1)), "x.raw", FolderId(1)),
      LibRawTwice,
      WithDataset(LibRawTwice, "x.raw", FolderId(1)),
      WithDataset(LibRawTwice, "x.raw", FolderId(2)),
      WithDataset(WithDataset(LibRawTwice, "x.raw", FolderId(1)), "x.raw", FolderId(2)),
      WithDataset(LibMzml, "x.mzml", FolderId(1)),
      WithDataset(WithDataset(LibMzml, "x.mzml", FolderId(1)), "x.json", FolderId(1)),
      LibMzmlTwice,
      WithDataset(LibMzmlTwice, "x.mzml", FolderId(1)),
      LibRaws,
      LibRawsB,
      WithDataset(LibRawsB, "y.raw", FolderId(2)),
      WithFolder(LibRawsB, "B", FolderId(1)) }

(***************************************************************************)
(* Initial state: the arguments and the library are chosen, nothing has    *)
(* run                                                                     *)
(***************************************************************************)
Init ==
    /\ import_raw_only \in BOOLEAN
    /\ import_results_only \in BOOLEAN
    /\ raw_list \in RawLists
    /\ local_files \in SUBSET LocalFiles
    /\ \E lib \in InitialLibraries :
          /\ remote_folders = lib.folders
          /\ remote_datasets = lib.datasets
          /\ initial_library = lib
    /\ library_folders = <<>>
    /\ pc = "setup"
    /\ line_no = 0
    /\ entries = <<>>
    /\ raw_file_path = ""
    /\ file_path = ""
    /\ file_type = ""
    /\ after = ""
    /\ folders = <<>>
    /\ parent_folder_id = ""
    /\ remote_path = ""
    /\ library_dataset = None
    /\ ensure_no = 0
    /\ call_log = <<>>
    /\ run_no = 1

run_locals == <<line_no, entries, raw_file_path, file_path, file_type, after, folders,
                parent_folder_id, remote_path, library_dataset, ensure_no, call_log>>

(***************************************************************************)
(* Module level: library_folders = gi.libraries.get_folders(LIBRARY_ID)    *)
(***************************************************************************)
Startup ==
    /\ pc = "setup"
    /\ library_folders' = ListFolders(remote_folders)
    /\ pc' = "main"
    /\ line_no' = 1
    /\ UNCHANGED <<args, remote, entries, raw_file_path, file_path, file_type, after,
                   link_locals, library_dataset, ensure_no, call_log>>

(***************************************************************************)
(* main: one iteration of the loop over the lines, up to the first call of *)
(* ensure_library_link                                                     *)
(***************************************************************************)
\* the line main is about to handle, normalized
CurrentPath == ReadPath(raw_list[line_no])

AtLine == pc = "main" /\ line_no <= Len(raw_list)

Entry(path, allowed, converted) ==
    [path |-> path, allowed |-> allowed, converted |-> converted]

\* ensure_library_link(path, ftype) is entered; cont says what main does on return
CallEnsure(path, ftype, cont) ==
    /\ file_path' = path
    /\ file_type' = ftype
    /\ after' = cont
    /\ ensure_no' = ensure_no + 1
    /\ pc' = "ensure"

\* the list is exhausted
Finish ==
    /\ pc = "main"
    /\ line_no > Len(raw_list)
    /\ pc' = "done"
    /\ UNCHANGED <<args, remote, library_folders, run_locals>>

\* the loop over the lines with break for continue: an illegal path ends the run
SkipIllegalStops ==
    /\ AtLine
    /\ ~is_allowed_raw_path(CurrentPath)
    /\ raw_file_path' = CurrentPath
    /\ entries' = Append(entries, Entry(CurrentPath, FALSE, "unchecked"))
    /\ pc' = "done"
    /\ UNCHANGED <<args, remote, library_folders, line_no, file_path, file_type, after,
                   link_locals, library_dataset, ensure_no, call_log>>

\* lines 145-147: an illegal path is skipped
SkipIllegal ==
    /\ AtLine
    /\ ~is_allowed_raw_path(CurrentPath)
    /\ raw_file_path' = CurrentPath
    /\ entries' = Append(entries, Entry(CurrentPath, FALSE, "unchecked"))
    /\ line_no' = line_no + 1
    /\ UNCHANGED <<args, remote, library_folders, pc, file_path, file_type, after,
                   link_locals, library_dataset, ensure_no, call_log>>

\* import_raw_only falling through to the workflow invocation
ImportRawOnlyInvokes ==
    /\ AtLine
    /\ is_allowed_raw_path(CurrentPath)
    /\ import_raw_only
    /\ raw_file_path' = CurrentPath
    /\ entries' = Append(entries, Entry(CurrentPath, TRUE, "unchecked"))
    /\ CallEnsure(CurrentPath, THERMO_FILE_TYPE, "invoke")
    /\ UNCHANGED <<args, remote, library_folders, line_no, link_locals, library_dataset,
                   call_log>>

\* lines 148-149: import_raw_only
ImportRawOnly ==
    /\ AtLine
    /\ is_allowed_raw_path(CurrentPath)
    /\ import_raw_only
    /\ raw_file_path' = CurrentPath
    /\ entries' = Append(entries, Entry(CurrentPath, TRUE, "unchecked"))
    /\ CallEnsure(CurrentPath, THERMO_FILE_TYPE, "next")
    /\ UNCHANGED <<args, remote, library_folders, line_no, link_locals, library_dataset,
                   call_log>>

\* lines 150-152: import_results_only, converted
ResultsOnlyConverted ==
    /\ AtLine
    /\ is_allowed_raw_path(CurrentPath)
    /\ ~import_raw_only /\ import_results_only
    /\ is_converted(CurrentPath)
    /\ raw_file_path' = CurrentPath
    /\ entries' = Append(entries, Entry(CurrentPath, TRUE, "yes"))
    /\ CallEnsure(mzml_path_of(CurrentPath), MZML_FILE_TYPE, "json")
    /\ UNCHANGED <<args, remote, library_folders, line_no, link_locals, library_dataset,
                   call_log>>

\* lines 150-154: import_results_only, not converted
ResultsOnlySkip ==
    /\ AtLine
    /\ is_allowed_raw_path(CurrentPath)
    /\ ~import_raw_only /\ import_results_only
    /\ ~is_converted(CurrentPath)
    /\ raw_file_path' = CurrentPath
    /\ entries' = Append(entries, Entry(CurrentPath, TRUE, "no"))
    /\ line_no' = line_no + 1
    /\ UNCHANGED <<args, remote, library_folders, pc, file_path, file_type, after,
                   link_locals, library_dataset, ensure_no, call_log>>

\* lines 155-156: default mode, not converted
DefaultUnconverted ==
    /\ AtLine
    /\ is_allowed_raw_path(CurrentPath)
    /\ ~import_raw_only /\ ~import_results_only
    /\ ~is_converted(CurrentPath)
    /\ raw_file_path' = CurrentPath
    /\ entries' = Append(entries, Entry(CurrentPath, TRUE, "no"))
    /\ CallEnsure(CurrentPath, THERMO_FILE_TYPE, "invoke")
    /\ UNCHANGED <<args, remote, library_folders, line_no, link_locals, library_dataset,
                   call_log>>

\* lines 159-160: default mode, converted
DefaultConverted ==
    /\ AtLine
    /\ is_allowed_raw_path(CurrentPath)
    /\ ~import_raw_only /\ ~import_results_only
    /\ is_converted(CurrentPath)
    /\ raw_file_path' = CurrentPath
    /\ entries' = Append(entries, Entry(CurrentPath, TRUE, "yes"))
    /\ CallEnsure(mzml_path_of(CurrentPath), MZML_FILE_TYPE, "json")
    /\ UNCHANGED <<args, remote, library_folders, line_no, link_locals, library_dataset,
                   call_log>>

(***************************************************************************)
(* ensure_library_link: the lookup                                         *)
(***************************************************************************)
Lookup == get_library_dataset(library_folders, remote_datasets, file_path)

ShowCalls(shown) ==
    [k \in 1..Len(shown) |->
        Call("show_folder", "", shown[k], "", "",
             Ids(FolderContents(remote_datasets, shown[k])))]

\* ensure_library_link linking the file although the lookup found it
EnsureFoundLinksAgain ==
    /\ pc = "ensure"
    /\ Lookup.dataset # None
    /\ library_dataset' = Lookup.dataset
    /\ call_log' = call_log \o ShowCalls(Lookup.shown)
    /\ folders' = SplitSep(NormPath(PathSplit(file_path)[1]))
    /\ parent_folder_id' = LIBRARY_ROOT_FOLDER_ID
    /\ remote_path' = ""
    /\ pc' = "resolve"
    /\ UNCHANGED <<args, remote, library_folders, line_no, entries, raw_file_path,
                   file_path, file_type, after, ensure_no>>

\* lines 124-125, 128: the dataset is found and returned
EnsureFound ==
    /\ pc = "ensure"
    /\ Lookup.dataset # None
    /\ library_dataset' = Lookup.dataset
    /\ call_log' = call_log \o ShowCalls(Lookup.shown)
    /\ pc' = "returned"
    /\ UNCHANGED <<args, remote, library_folders, line_no, entries, raw_file_path,
                   file_path, file_type, after, link_locals, ensure_no>>

\* lines 124-127 and 84-89: not found, link_to_data_library is entered
EnsureMissing ==
    /\ pc = "ensure"
    /\ Lookup.dataset = None
    /\ library_dataset' = None
    /\ call_log' = call_log \o ShowCalls(Lookup.shown)
    /\ folders' = SplitSep(NormPath(PathSplit(file_path)[1]))
    /\ parent_folder_id' = LIBRARY_ROOT_FOLDER_ID
    /\ remote_path' = ""
    /\ pc' = "resolve"
    /\ UNCHANGED <<args, remote, library_folders, line_no, entries, raw_file_path,
                   file_path, file_type, after, ensure_no>>

(***************************************************************************)
(* link_to_data_library: one iteration of the while loop, then the upload  *)
(***************************************************************************)
InLoop == pc = "resolve" /\ Len(folders) > 0

current_name == Head(folders)

\* line 92: the cumulative remote path of this iteration
NextRemotePath == remote_path \o "/" \o current_name

\* line 93: the folders the server returns for it
remote_folder == FoldersNamed(remote_folders, NextRemotePath)

QueryCall == Call("get_folders", NextRemotePath, "", "", "", Ids(remote_folder))

\* the loop with the exception left out: it moves down into the first folder
ResolveAmbiguousDescends ==
    /\ InLoop
    /\ Len(remote_folder) > 1
    /\ parent_folder_id' = remote_folder[1].id
    /\ folders' = Tail(folders)
    /\ remote_path' = NextRemotePath
    /\ call_log' = Append(call_log, QueryCall)
    /\ UNCHANGED <<args, remote, library_folders, pc, line_no, entries, raw_file_path,
                   file_path, file_type, after, library_dataset, ensure_no>>

\* lines 94-95: more than one folder, the exception ends the run
ResolveAmbiguous ==
    /\ InLoop
    /\ Len(remote_folder) > 1
    /\ folders' = Tail(folders)
    /\ remote_path' = NextRemotePath
    /\ call_log' = Append(call_log, QueryCall)
    /\ pc' = "crashed"
    /\ UNCHANGED <<args, remote, library_folders, line_no, entries, raw_file_path,
                   file_path, file_type, after, parent_folder_id, library_dataset,
                   ensure_no>>

\* the loop creating every folder directly under the library root
ResolveCreateUnderRoot ==
    /\ InLoop
    /\ Len(remote_folder) < 1
    /\ LET new_folder == NewFolder(remote_folders, current_name, LIBRARY_ROOT_FOLDER_ID) IN
         /\ remote_folders' = Append(remote_folders, new_folder)
         /\ parent_folder_id' = new_folder.id
         /\ call_log' = call_log \o
                <<QueryCall,
                  Call("create_folder", current_name, LIBRARY_ROOT_FOLDER_ID, "", "",
                       <<new_folder.id>>)>>
    /\ folders' = Tail(folders)
    /\ remote_path' = NextRemotePath
    /\ UNCHANGED <<args, remote_datasets, library_folders, pc, line_no, entries,
                   raw_file_path, file_path, file_type, after, library_dataset, ensure_no>>

\* lines 96-99: no folder, one is created under the current parent
ResolveCreate ==
    /\ InLoop
    /\ Len(remote_folder) < 1
    /\ LET new_folder == NewFolder(remote_folders, current_name, parent_folder_id) IN
         /\ remote_folders' = Append(remote_folders, new_folder)
         /\ parent_folder_id' = new_folder.id
         /\ call_log' = call_log \o
                <<QueryCall,
                  Call("create_folder", current_name, parent_folder_id, "", "",
                       <<new_folder.id>>)>>
    /\ folders' = Tail(folders)
    /\ remote_path' = NextRemotePath
    /\ UNCHANGED <<args, remote_datasets, library_folders, pc, line_no, entries,
                   raw_file_path, file_path, file_type, after, library_dataset, ensure_no>>

\* the loop creating a folder also when exactly one exists (<= 1 for < 1)
ResolveDescendCreates ==
    /\ InLoop
    /\ Len(remote_folder) = 1
    /\ LET new_folder == NewFolder(remote_folders, current_name, parent_folder_id) IN
         /\ remote_folders' = Append(remote_folders, new_folder)
         /\ parent_folder_id' = new_folder.id
         /\ call_log' = call_log \o
                <<QueryCall,
                  Call("create_folder", current_name, parent_folder_id, "", "",
                       <<new_folder.id>>)>>
    /\ folders' = Tail(folders)
    /\ remote_path' = NextRemotePath
    /\ UNCHANGED <<args, remote_datasets, library_folders, pc, line_no, entries,
                   raw_file_path, file_path, file_type, after, library_dataset, ensure_no>>

\* lines 100-102: exactly one folder, the loop moves down into it
ResolveDescend ==
    /\ InLoop
    /\ Len(remote_folder) = 1
    /\ parent_folder_id' = remote_folder[1].id
    /\ folders' = Tail(folders)
    /\ remote_path' = NextRemotePath
    /\ call_log' = Append(call_log, QueryCall)
    /\ UNCHANGED <<args, remote, library_folders, pc, line_no, entries, raw_file_path,
                   file_path, file_type, after, library_dataset, ensure_no>>

\* link_to_data_library fetching the folder index again after its upload
UploadRefreshesIndex ==
    /\ pc = "resolve"
    /\ Len(folders) = 0
    /\ LET filesystem_path == PathJoin2(EXPORT_PATH_PREFIX, file_path)
           response == NewDataset(remote_datasets, filesystem_path, parent_folder_id,
                                  file_type)
       IN  /\ remote_datasets' = Append(remote_datasets, response)
           /\ library_dataset' = [id |-> response.id, name |-> response.name]
           /\ call_log' = call_log \o
                  <<Call("get_folders_by_id", "", parent_folder_id, "", "",
                         Ids(FoldersWithId(remote_folders, parent_folder_id))),
                    Call("upload", filesystem_path, parent_folder_id, file_type, "",
                         <<response.id>>)>>
    /\ library_folders' = ListFolders(remote_folders)
    /\ pc' = "returned"
    /\ UNCHANGED <<args, remote_folders, line_no, entries, raw_file_path,
                   file_path, file_type, after, link_locals, ensure_no>>

\* lines 103-106 and 128: the loop is over, the file is uploaded by reference
Upload ==
    /\ pc = "resolve"
    /\ Len(folders) = 0
    /\ LET filesystem_path == PathJoin2(EXPORT_PATH_PREFIX, file_path)
           response == NewDataset(remote_datasets, filesystem_path, parent_folder_id,
                                  file_type)
       IN  /\ remote_datasets' = Append(remote_datasets, response)
           /\ library_dataset' = [id |-> response.id, name |-> response.name]
           /\ call_log' = call_log \o
                  <<Call("get_folders_by_id", "", parent_folder_id, "", "",
                         Ids(FoldersWithId(remote_folders, parent_folder_id))),
                    Call("upload", filesystem_path, parent_folder_id, file_type, "",
                         <<response.id>>)>>
    /\ pc' = "returned"
    /\ UNCHANGED <<args, remote_folders, library_folders, line_no, entries, raw_file_path,
                   file_path, file_type, after, link_locals, ensure_no>>

(***************************************************************************)
(* main, after ensure_library_link has returned                            *)
(***************************************************************************)
\* lines 149 and 136: nothing more for this line, sleep and go on
ReturnNext ==
    /\ pc = "returned"
    /\ after = "next"
    /\ line_no' = line_no + 1
    /\ pc' = "main"
    /\ UNCHANGED <<args, remote, library_folders, entries, raw_file_path, file_path,
                   file_type, after, link_locals, library_dataset, ensure_no, call_log>>

\* run_conversion_workflow passing the name of the dataset for its id
ReturnInvokeByName ==
    /\ pc = "returned"
    /\ after = "invoke"
    /\ call_log' = Append(call_log,
            Call("invoke_workflow", get_mzml_path(raw_file_path), "", "",
                 library_dataset.name, <<>>))
    /\ line_no' = line_no + 1
    /\ pc' = "main"
    /\ UNCHANGED <<args, remote, library_folders, entries, raw_file_path, file_path,
                   file_type, after, link_locals, library_dataset, ensure_no>>

\* lines 157-158 and 72-80: run_conversion_workflow(raw_library_dataset, raw_file_path)
ReturnInvoke ==
    /\ pc = "returned"
    /\ after = "invoke"
    /\ call_log' = Append(call_log,
            Call("invoke_workflow", get_mzml_path(raw_file_path), "", "",
                 library_dataset.id, <<>>))
    /\ line_no' = line_no + 1
    /\ pc' = "main"
    /\ UNCHANGED <<args, remote, library_folders, entries, raw_file_path, file_path,
                   file_type, after, link_locals, library_dataset, ensure_no>>

\* ensure_converted_links linking the json file with the type of the mzml file
ReturnJsonTaggedMzml ==
    /\ pc = "returned"
    /\ after = "json"
    /\ CallEnsure(json_path_of(raw_file_path), MZML_FILE_TYPE, "next")
    /\ UNCHANGED <<args, remote, library_folders, line_no, entries, raw_file_path,
                   link_locals, library_dataset, call_log>>

\* lines 135-136: the mzml file is linked, the json file is next
ReturnJson ==
    /\ pc = "returned"
    /\ after = "json"
    /\ CallEnsure(json_path_of(raw_file_path), JSON_FILE_TYPE, "next")
    /\ UNCHANGED <<args, remote, library_folders, line_no, entries, raw_file_path,
                   link_locals, library_dataset, call_log>>

(***************************************************************************)
(* The specification                                                       *)
(***************************************************************************)
Next ==
    \/ Startup
    \/ Finish
    \/ SkipIllegal
    \/ ImportRawOnly
    \/ ResultsOnlyConverted
    \/ ResultsOnlySkip
    \/ DefaultUnconverted
    \/ DefaultConverted
    \/ EnsureFound
    \/ EnsureMissing
    \/ ResolveAmbiguous
    \/ ResolveCreate
    \/ ResolveDescend
    \/ Upload
    \/ ReturnNext
    \/ ReturnInvoke
    \/ ReturnJson

Spec == Init /\ [][Next]_vars

(***************************************************************************)
(* The script started a second time, with the same arguments, on the        *)
(* library a finished import_raw_only run has left                          *)
(***************************************************************************)
Rerun ==
    /\ pc = "done"
    /\ run_no = 1
    /\ import_raw_only
    /\ run_no' = 2
    /\ initial_library' = [folders |-> remote_folders, datasets |-> remote_datasets]
    /\ library_folders' = <<>>
    /\ pc' = "setup"
    /\ line_no' = 0
    /\ entries' = <<>>
    /\ raw_file_path' = ""
    /\ file_path' = ""
    /\ file_type' = ""
    /\ after' = ""
    /\ folders' = <<>>
    /\ parent_folder_id' = ""
    /\ remote_path' = ""
    /\ library_dataset' = None
    /\ ensure_no' = 0
    /\ call_log' = <<>>
    /\ UNCHANGED <<import_raw_only, import_results_only, raw_list, local_files, remote>>

RerunNext == Next \/ Rerun

RerunSpec == Init /\ [][RerunNext]_vars

\* the run has not ended: exactly the states in which a step of Next is enabled
Running == pc \notin {"done", "crashed"}

\* the script is one sequential process, a step that can be taken is taken:
\* WF_vars(Next), with ENABLED <<Next>>_vars written as Running
Fairness == []<>(~Running) \/ []<><<Next>>_vars

FairSpec == Init /\ [][Next]_vars /\ Fairness

(***************************************************************************)
(* The path functions on their own: a line is read as main reads it, then  *)
(* classified, then its converted path is derived                          *)
(***************************************************************************)
MaxDepth == 2

DirNames == {"raw", "RAW", "RAW_profile", "xraw1", "Raw", "A", "mzML_profile", ".", ".."}

FileNames == {"x.raw", "raw.raw", "RAW"}

DirSeqs == UNION {[1..n -> DirNames] : n \in 0..MaxDepth}

\* relative paths, as the lines of the input list are
PathLines == {JoinSep(d \o <<f>>) \o "\n" : d \in DirSeqs, f \in FileNames}

PathInit ==
    /\ import_raw_only = FALSE
    /\ import_results_only = FALSE
    /\ raw_list \in {<<l>> : l \in PathLines}
    /\ local_files = {}
    /\ remote_folders = EmptyLibrary.folders
    /\ remote_datasets = EmptyLibrary.datasets
    /\ initial_library = EmptyLibrary
    /\ library_folders = <<>>
    /\ pc = "path"
    /\ line_no = 1
    /\ entries = <<>>
    /\ raw_file_path = ""
    /\ file_path = ""
    /\ file_type = ""
    /\ after = ""
    /\ folders = <<>>
    /\ parent_folder_id = ""
    /\ remote_path = ""
    /\ library_dataset = None
    /\ ensure_no = 0
    /\ call_log = <<>>
    /\ run_no = 1

\* lines 143-145: the line is normalized and classified
Classify ==
    /\ pc = "path"
    /\ raw_file_path' = CurrentPath
    /\ entries' = <<Entry(CurrentPath, is_allowed_raw_path(CurrentPath), "unchecked")>>
    /\ pc' = "classified"
    /\ UNCHANGED <<args, remote, library_folders, line_no, file_path, file_type, after,
                   link_locals, library_dataset, ensure_no, call_log>>

\* line 45: the converted path of the raw path is derived
DeriveMzml ==
    /\ pc = "classified"
    /\ file_path' = get_mzml_path(raw_file_path)
    /\ pc' = "derived"
    /\ UNCHANGED <<args, remote, library_folders, line_no, entries, raw_file_path,
                   file_type, after, link_locals, library_dataset, ensure_no, call_log>>

PathNext == Classify \/ DeriveMzml

PathSpec == PathInit /\ [][PathNext]_vars

(***************************************************************************)
(* Vocabulary of the properties                                            *)
(***************************************************************************)
TypeOK == pc \in {"setup", "main", "ensure", "resolve", "returned", "done", "crashed",
                  "path", "classified", "derived"}

\* s has sub as a substring
Contains(s, sub) == \E k \in 1..(Len(s) - Len(sub) + 1) : SubSeq(s, k, k + Len(sub) - 1) = sub

Markers == {ALLOWED_RAW_FILES_FOLDER_NAMES[k] : k \in 1..Len(ALLOWED_RAW_FILES_FOLDER_NAMES)}

HasMarker(s) == \E m \in Markers : Contains(s, m)

\* the components of a normalized path, the file name last
Components(path) == SplitSep(path)

\* the directory part of a normalized relative path, "." when the file has none
DirectoryOf(path) ==
    LET c == Components(path)
    IN  IF Len(c) = 1 THEN "." ELSE JoinSep(SubSeq(c, 1, Len(c) - 1))

\* the name of the directory the file is in, "" when the file has none
ParentName(path) ==
    LET c == Components(path)
    IN  IF Len(c) = 1 THEN "" ELSE c[Len(c) - 1]

LogIdx == 1..Len(call_log)

\* the positions of call_log that belong to line k of the input
CallsOfLine(k) == {j \in LogIdx : call_log[j].line = k}

\* the positions of call_log with operation op
CallsOfOp(op) == {j \in LogIdx : call_log[j].op = op}

DuplicateDatasets(ds) ==
    \E a, b \in 1..Len(ds) :
        a < b /\ ds[a].folder_id = ds[b].folder_id /\ ds[a].name = ds[b].name

\* two folders with the same path
DuplicateFolders(fs) == \E a, b \in 1..Len(fs) : a < b /\ fs[a].name = fs[b].name

\* the position in remote_datasets of the dataset with this id
DatasetPos(id) == CHOOSE k \in 1..Len(remote_datasets) : remote_datasets[k].id = id

\* the upload at position j of call_log put its file where a dataset of that
\* name already was, in the folder whose path is the directory of the file
UploadedOverExisting(j) ==
    \E k \in 1..(DatasetPos(call_log[j].result[1]) - 1) :
        /\ remote_datasets[k].name = PathSplit(call_log[j].file)[2]
        /\ \E f \in 1..Len(remote_folders) :
              /\ remote_folders[f].id = remote_datasets[k].folder_id
              /\ LStrip(remote_folders[f].name, {"/"}) = PathSplit(call_log[j].file)[1]

\* C2: ensure_library_link issues no upload for a file that is already linked
\* under the folder matching its directory, whether linked before the run or by
\* an earlier entry of it; so a library that starts without duplicates never
\* holds two datasets with the same folder and file name.
C2_EnsureLinkNeverDuplicates ==
    /\ \A j \in CallsOfOp("upload") : ~UploadedOverExisting(j)
    /\ (/\ ~DuplicateDatasets(initial_library.datasets)
        /\ ~DuplicateFolders(initial_library.folders))
           => ~DuplicateDatasets(remote_datasets)

(***************************************************************************)
(* C3                                                                      *)
(***************************************************************************)
\* the positions of call_log that belong to the e-th ensure_library_link call
CallsOfEnsure(e) == {j \in LogIdx : call_log[j].ensure = e}

\* the folder queries by name of the e-th call, in order
QueriesOf(e) ==
    SelectSeq(call_log, LAMBDA c : c.ensure = e /\ c.op = "get_folders")

CreatesOf(e) ==
    SelectSeq(call_log, LAMBDA c : c.ensure = e /\ c.op = "create_folder")

\* the components of the directory of the file of the e-th call
DirComponentsOf(e) ==
    LET j == CHOOSE j \in CallsOfEnsure(e) : TRUE
    IN  SplitSep(DirectoryOf(call_log[j].file))

\* the e-th call has left the loop of link_to_data_library by its end
Resolved(e) == \E j \in CallsOfEnsure(e) : call_log[j].op = "upload"

\* C3: for a directory of k components link_to_data_library queries the
\* cumulative remote paths in order, issues exactly one create_folder call after
\* each query that returns no folder and none after a query that returns exactly
\* one; so it creates at most k folders, and none when every path exists.
C3_OneCreatePerAbsentComponent ==
    /\ \A j \in CallsOfOp("create_folder") :
          /\ j > 1
          /\ call_log[j - 1].op = "get_folders"
          /\ call_log[j - 1].result = <<>>
          /\ call_log[j - 1].ensure = call_log[j].ensure
          /\ call_log[j - 1].name = ChildName(
                 FoldersWithId(remote_folders, call_log[j].folder_id)[1].name,
                 call_log[j].name)
    /\ \A j \in CallsOfOp("get_folders") :
          /\ Len(call_log[j].result) = 0 =>
                j < Len(call_log) /\ call_log[j + 1].op = "create_folder"
          /\ Len(call_log[j].result) = 1 =>
                j = Len(call_log) \/ call_log[j + 1].op # "create_folder"
    /\ \A e \in 1..ensure_no : CallsOfEnsure(e) # {} =>
          LET comps   == DirComponentsOf(e)
              queries == QueriesOf(e)
              absent  == SelectSeq(queries, LAMBDA c : Len(c.result) = 0)
          IN  /\ Len(queries) <= Len(comps)
              /\ \A i \in 1..Len(queries) :
                    queries[i].name = "/" \o JoinSep(SubSeq(comps, 1, i))
              /\ Len(CreatesOf(e)) = Len(absent)
              /\ Len(CreatesOf(e)) <= Len(comps)
              /\ Resolved(e) => Len(queries) = Len(comps)

\* a call for a directory of two components that found the first and created
\* the second
C3_Witness ==
    \E e \in 1..ensure_no :
        /\ CallsOfEnsure(e) # {}
        /\ Resolved(e)
        /\ Len(DirComponentsOf(e)) = 2
        /\ Len(QueriesOf(e)[1].result) = 1
        /\ Len(QueriesOf(e)[2].result) = 0
        /\ Len(CreatesOf(e)) = 1

(***************************************************************************)
(* C4                                                                      *)
(***************************************************************************)
\* C4: a folder query that returns more than one folder raises the ambiguity
\* error and is the last call of the run: nothing is created or uploaded after
\* it, no workflow is invoked and no later line is handled.
C4_AmbiguityEndsTheRun ==
    \A j \in CallsOfOp("get_folders") :
        Len(call_log[j].result) > 1 =>
            /\ j = Len(call_log)
            /\ pc = "crashed"
            /\ line_no = call_log[j].line
            /\ Len(entries) = line_no
            /\ remote_folders = initial_library.folders
                   \o SelectSeq(remote_folders, LAMBDA f :
                          \E c \in CallsOfOp("create_folder") : call_log[c].result = <<f.id>>)

\* the run died on the second component of the first of two lines, in default mode
C4_Witness ==
    /\ pc = "crashed"
    /\ line_no = 1
    /\ Len(raw_list) = 2
    /\ ~import_raw_only /\ ~import_results_only
    /\ Len(call_log) > 1
    /\ Len(call_log[Len(call_log)].result) > 1

(***************************************************************************)
(* C5                                                                      *)
(***************************************************************************)
\* the calls that change the server, in order
MutatingCalls ==
    SelectSeq(call_log, LAMBDA c : c.op \in {"create_folder", "upload", "invoke_workflow"})

\* a finished default-mode run over one eligible, unconverted line that started
\* with no folder and no dataset in the library
EndToEndCase ==
    /\ pc = "done"
    /\ ~import_raw_only /\ ~import_results_only
    /\ Len(raw_list) = 1
    /\ entries[1].allowed
    /\ entries[1].converted = "no"
    /\ initial_library = EmptyLibrary

\* C5: such a run creates one folder per component of the directory, then
\* uploads the raw file once with type thermo.raw, then invokes the workflow
\* once on the id of the uploaded dataset, and changes nothing else.
C5_EndToEnd ==
    EndToEndCase =>
        LET N == Len(SplitSep(DirectoryOf(entries[1].path)))
            m == MutatingCalls
        IN  /\ Len(m) = N + 2
            /\ \A i \in 1..N : m[i].op = "create_folder"
            /\ m[N + 1].op = "upload"
            /\ m[N + 1].file_type = "thermo.raw"
            /\ m[N + 1].name = EXPORT_PATH_PREFIX \o entries[1].path
            /\ m[N + 2].op = "invoke_workflow"
            /\ m[N + 2].dataset_id = m[N + 1].result[1]
            /\ Len(remote_folders) = N + 1
            /\ Len(remote_datasets) = 1
            /\ remote_datasets[1].id = m[N + 1].result[1]

\* the end-to-end run for a directory of depth 2
C5_Witness ==
    /\ EndToEndCase
    /\ entries[1].path = "raws/B/y.raw"
    /\ Len(MutatingCalls) = 4

(***************************************************************************)
(* C6                                                                      *)
(***************************************************************************)
\* a normalized relative path of the form D/P/name.raw
IsRawForm(path) ==
    /\ Len(Components(path)) >= 3
    /\ EndsWith(Components(path)[Len(Components(path))], ".raw")

\* the export root, D, mzML_profile in place of P, name.mzml
SiblingMzml(path) ==
    LET c    == Components(path)
        n    == Len(c)
        name == SubSeq(c[n], 1, Len(c[n]) - Len(".raw"))
    IN  EXPORT_PATH_PREFIX \o JoinSep(SubSeq(c, 1, n - 2) \o <<"mzML_profile", name \o ".mzml">>)

DefaultMode == ~import_raw_only /\ ~import_results_only

\* the converted file of entry k exists locally
ConvertedLocally(k) == get_mzml_path(entries[k].path) \in local_files

InvokedFor(k) == \E j \in CallsOfLine(k) : call_log[j].op = "invoke_workflow"

\* the raw file of entry k was uploaded
RawUploadedFor(k) ==
    \E j \in CallsOfLine(k) :
        /\ call_log[j].op = "upload"
        /\ \/ call_log[j].file_type = "thermo.raw"
           \/ call_log[j].name = EXPORT_PATH_PREFIX \o entries[k].path

\* every call of entry k belongs to the ensure-link of its mzml or its json file
OnlyDerivedLinksFor(k) ==
    LET derived == {mzml_path_of(entries[k].path), json_path_of(entries[k].path)}
    IN  \A j \in CallsOfLine(k) :
            /\ call_log[j].file \in derived
            /\ call_log[j].op # "invoke_workflow"

\* for a converted entry: no workflow, no raw upload, derived artifacts only
ConvertedEntryOnlyLinks(k) ==
    ConvertedLocally(k) =>
        /\ ~InvokedFor(k)
        /\ ~RawUploadedFor(k)
        /\ OnlyDerivedLinksFor(k)

\* the handling of entry k is over, whichever way it ended
Ended(k) == k < line_no \/ pc = "crashed"

\* the handling of entry k ran to its end
Completed(k) == k < line_no

\* C7 as stated: in default mode, for every accepted entry, a workflow is
\* invoked if and only if its converted path does not exist locally; when it
\* exists the entry causes no workflow and no raw upload, only derived links.
C7_InvokedIffUnconverted ==
    DefaultMode =>
        \A k \in 1..Len(entries) : (entries[k].allowed /\ Ended(k)) =>
            /\ InvokedFor(k) <=> ~ConvertedLocally(k)
            /\ ConvertedEntryOnlyLinks(k)

\* C7 amended: in default mode, for every accepted entry whose handling runs to
\* its end, a workflow is invoked if and only if its converted path does not
\* exist locally; for every accepted entry, also one that the ambiguity error
\* cut short, a workflow is invoked only if the converted path does not exist,
\* and when it exists the entry causes no workflow and no raw upload, only the
\* ensure-link of the derived artifacts.
C7_InvokedIffUnconvertedWhenCompleted ==
    DefaultMode =>
        \A k \in 1..Len(entries) : entries[k].allowed =>
            /\ Completed(k) => (InvokedFor(k) <=> ~ConvertedLocally(k))
            /\ InvokedFor(k) => ~ConvertedLocally(k)
            /\ ConvertedEntryOnlyLinks(k)

\* a finished default-mode run over a converted and an unconverted entry
C7_Witness ==
    /\ pc = "done"
    /\ DefaultMode
    /\ Len(entries) = 2
    /\ entries[1].allowed /\ ConvertedLocally(1) /\ ~InvokedFor(1) /\ CallsOfLine(1) # {}
    /\ entries[2].allowed /\ ~ConvertedLocally(2) /\ InvokedFor(2)

(***************************************************************************)
(* C8                                                                      *)
(***************************************************************************)
\* the branch main takes: import_raw_only is tested first
RawOnlyMode == import_raw_only

ResultsOnlyMode == ~import_raw_only /\ import_results_only

\* the upload at position j of call_log is of the raw file of its line
IsRawUpload(j) ==
    /\ call_log[j].file_type = "thermo.raw"
    /\ call_log[j].name = EXPORT_PATH_PREFIX \o entries[call_log[j].line].path

\* C8: in import-raw-only and in import-results-only mode no workflow is ever
\* invoked; in import-raw-only mode every upload is of a raw file with type
\* thermo.raw, converted or not; in import-results-only mode no raw file is
\* uploaded and an unconverted entry causes no call at all.
C8_ImportModesNeverInvoke ==
    /\ (RawOnlyMode \/ ResultsOnlyMode) => CallsOfOp("invoke_workflow") = {}
    /\ RawOnlyMode => \A j \in CallsOfOp("upload") : IsRawUpload(j)
    /\ ResultsOnlyMode =>
          /\ \A j \in CallsOfOp("upload") :
                /\ call_log[j].file_type # "thermo.raw"
                /\ call_log[j].name # EXPORT_PATH_PREFIX \o entries[call_log[j].line].path
          /\ \A k \in 1..Len(entries) : ~ConvertedLocally(k) => CallsOfLine(k) = {}

\* a finished import-raw-only run that uploaded the raw file of a converted entry
C8_Witness ==
    /\ pc = "done"
    /\ RawOnlyMode
    /\ \E k \in 1..Len(entries) :
          /\ ConvertedLocally(k)
          /\ \E j \in CallsOfLine(k) : call_log[j].op = "upload" /\ IsRawUpload(j)

(***************************************************************************)
(* C9                                                                      *)
(***************************************************************************)
\* the pairs <<k, i>>: item i of the contents of the k-th folder of the index
\* matches the file by folder name and by name
Matches(index, ds, path) ==
    {m \in (1..Len(index)) \X (1..Len(ds)) :
        /\ LStrip(index[m[1]].name, {"/"}) = DirectoryOf(path)
        /\ m[2] <= Len(FolderContents(ds, index[m[1]].id))
        /\ FolderContents(ds, index[m[1]].id)[m[2]].name = Components(path)[Len(Components(path))]}

\* the first of them, folders in index order and items in contents order
FirstMatch(index, ds, path) ==
    LET ms == Matches(index, ds, path)
    IN  IF ms = {} THEN None
        ELSE LET m == CHOOSE m \in ms : \A o \in ms :
                          m[1] < o[1] \/ (m[1] = o[1] /\ m[2] <= o[2])
             IN  FolderContents(ds, index[m[1]].id)[m[2]]

\* ensure_library_link has just returned what get_library_dataset found
JustFound ==
    /\ pc = "returned"
    /\ Len(call_log) > 0
    /\ call_log[Len(call_log)].op = "show_folder"

\* C9: get_library_dataset returns the first item, in index order and then in
\* contents order, whose folder name equals the directory of the file and whose
\* name equals the file name, also when several folders or items match, and
\* None if and only if there is no such item.
C9_LookupReturnsFirstMatch ==
    /\ JustFound =>
          library_dataset = FirstMatch(library_folders, remote_datasets, file_path)
    /\ pc = "resolve" =>
          /\ library_dataset = None
          /\ FirstMatch(library_folders, remote_datasets, file_path) = None

QueriesBefore(j) ==
    {q \in CallsOfOp("get_folders") : q < j /\ call_log[q].ensure = call_log[j].ensure}

\* the id of the folder the query at position q was resolved to: the one found,
\* or the one the create_folder call after it made
ResolvedAt(q) ==
    IF call_log[q].result = <<>> THEN call_log[q + 1].result[1] ELSE call_log[q].result[1]

\* the id of the folder resolved for the last component handled before
\* position j, the library root when no component was handled yet
ParentAt(j) ==
    LET qs == QueriesBefore(j)
    IN  IF qs = {} THEN LIBRARY_ROOT_FOLDER_ID
        ELSE ResolvedAt(CHOOSE q \in qs : \A o \in qs : o <= q)

\* the folder of the server with this id
FolderOf(id) == FoldersWithId(remote_folders, id)[1]

\* C11: in link_to_data_library every create_folder call has as base folder the
\* folder resolved (found or created) for the preceding component, the library
\* root for the first component, and is named after its own component; the
\* upload goes into the folder resolved for the last component; so the folders
\* created form one parent chain that mirrors the directory path in order.
C11_CreatesChainFromResolvedParent ==
    /\ \A j \in CallsOfOp("create_folder") :
          LET i == Cardinality(QueriesBefore(j))
              made == FolderOf(call_log[j].result[1])
          IN  /\ call_log[j].folder_id = ParentAt(j - 1)
              /\ i = 1 => call_log[j].folder_id = LIBRARY_ROOT_FOLDER_ID
              /\ call_log[j].name = DirComponentsOf(call_log[j].ensure)[i]
              /\ made.base = call_log[j].folder_id
              /\ made.name = "/" \o JoinSep(SubSeq(DirComponentsOf(call_log[j].ensure), 1, i))
    /\ \A j \in CallsOfOp("upload") :
          /\ call_log[j].folder_id = ParentAt(j)
          /\ call_log[j - 1].op = "get_folders_by_id"
          /\ call_log[j - 1].folder_id = call_log[j].folder_id
          /\ FolderOf(call_log[j].folder_id).name = "/" \o DirectoryOf(call_log[j].file)
          /\ remote_datasets[DatasetPos(call_log[j].result[1])].folder_id = call_log[j].folder_id

\* an upload into the second of two folders created one under the other, the
\* first under the library root
C11_Witness ==
    \E j \in CallsOfOp("upload") :
        LET creates == CreatesOf(call_log[j].ensure)
        IN  /\ Len(creates) = 2
            /\ creates[1].folder_id = LIBRARY_ROOT_FOLDER_ID
            /\ creates[2].folder_id = creates[1].result[1]
            /\ call_log[j].folder_id = creates[2].result[1]

(***************************************************************************)
(* C12                                                                     *)
(***************************************************************************)
\* the ids of the datasets named like the file that the show_folder calls of
\* the e-th ensure_library_link call listed: what its lookup could find
FoundIds(e) ==
    {id \in {remote_datasets[k].id : k \in 1..Len(remote_datasets)} :
        \E i \in CallsOfEnsure(e) :
            /\ call_log[i].op = "show_folder"
            /\ \E r \in 1..Len(call_log[i].result) : call_log[i].result[r] = id
            /\ remote_datasets[DatasetPos(id)].name = PathSplit(call_log[i].file)[2]}

UploadsOf(e) == SelectSeq(call_log, LAMBDA c : c.ensure = e /\ c.op = "upload")

\* the last call of the run so far is a workflow invocation
JustInvoked ==
    /\ Len(call_log) > 0
    /\ call_log[Len(call_log)].op = "invoke_workflow"
    /\ pc \in {"main", "done", "ensure"}

\* C12: every workflow invocation comes, within its entry, right after the one
\* ensure_library_link call of the entry, which is for the raw file of the
\* entry; its input dataset id is the id of the dataset that call returned: a
\* dataset the lookup found, with no upload issued, when it found one, else the
\* dataset just uploaded; its remote_path is get_mzml_path of the raw file.
C12_InvocationFollowsEnsureOfRawFile ==
    /\ \A j \in CallsOfOp("invoke_workflow") :
          LET e == call_log[j].ensure
              k == call_log[j].line
          IN  /\ call_log[j].file = entries[k].path
              /\ call_log[j].name = get_mzml_path(entries[k].path)
              /\ j > 1
              /\ call_log[j - 1].op \in {"show_folder", "upload"}
              /\ \A i \in CallsOfLine(k) : i <= j /\ call_log[i].ensure = e
              /\ \A i \in CallsOfEnsure(e) : call_log[i].line = k
              /\ IF FoundIds(e) # {}
                 THEN /\ UploadsOf(e) = <<>>
                      /\ CreatesOf(e) = <<>>
                      /\ call_log[j].dataset_id \in FoundIds(e)
                 ELSE /\ Len(UploadsOf(e)) = 1
                      /\ call_log[j - 1].op = "upload"
                      /\ call_log[j - 1].name = EXPORT_PATH_PREFIX \o entries[k].path
                      /\ call_log[j - 1].result = <<call_log[j].dataset_id>>
    /\ (pc = "returned" /\ after = "invoke") =>
          /\ file_path = raw_file_path
          /\ JustFound => library_dataset = Lookup.dataset
          /\ call_log[Len(call_log)].op = "upload" =>
                library_dataset.id = call_log[Len(call_log)].result[1]
    /\ JustInvoked => call_log[Len(call_log)].dataset_id = library_dataset.id

\* a finished run that invoked the workflow on a dataset that was linked
\* before, uploading nothing for it, and on one it had to upload
C12_Witness ==
    /\ pc = "done"
    /\ JustInvoked
    /\ Len(initial_library.datasets) > 0
    /\ \E j \in CallsOfOp("invoke_workflow") :
          /\ FoundIds(call_log[j].ensure) # {}
          /\ UploadsOf(call_log[j].ensure) = <<>>
          /\ call_log[j].dataset_id = initial_library.datasets[1].id
    /\ \E j \in CallsOfOp("invoke_workflow") :
          /\ FoundIds(call_log[j].ensure) = {}
          /\ call_log[j - 1].result = <<call_log[j].dataset_id>>

(***************************************************************************)
(* C13                                                                     *)
(***************************************************************************)
\* the ensure_library_link calls that made a call on the server for entry k
EnsuresOfLine(k) == {call_log[j].ensure : j \in CallsOfLine(k)}

\* the file the e-th ensure_library_link call was for
FileOfEnsure(e) == call_log[CHOOSE j \in CallsOfEnsure(e) : TRUE].file

\* the raw path with its parent directory replaced by mzML_profile and its
\* extension by ext
DerivedArtifact(path, ext) ==
    LET c    == Components(path)
        n    == Len(c)
        stem == SubSeq(c[n], 1, Len(c[n]) - Len(".raw"))
    IN  JoinSep(SubSeq(c, 1, n - 2) \o <<"mzML_profile", stem \o ext>>)

\* entry k went through ensure_converted_links
ConvertedEntry(k) == entries[k].allowed /\ ~import_raw_only /\ ConvertedLocally(k)

\* every upload of entry k is of the mzml file tagged mzml or of the json file
\* tagged json, never of the raw file and never tagged thermo.raw
DerivedUploadsTagged(k) ==
    LET mzml == EXPORT_PATH_PREFIX \o DerivedArtifact(entries[k].path, ".mzml")
        json == EXPORT_PATH_PREFIX \o DerivedArtifact(entries[k].path, ".json")
        raw  == EXPORT_PATH_PREFIX \o entries[k].path
    IN  \A j \in CallsOfLine(k) : call_log[j].op = "upload" =>
            /\ call_log[j].file_type # "thermo.raw"
            /\ call_log[j].name # raw
            /\ \/ call_log[j].name = mzml /\ call_log[j].file_type = "mzml"
               \/ call_log[j].name = json /\ call_log[j].file_type = "json"

\* entry k had exactly two ensure-links, of the mzml file and then of the json file
LinkedMzmlThenJson(k) ==
    /\ Cardinality(EnsuresOfLine(k)) = 2
    /\ \E e1, e2 \in EnsuresOfLine(k) :
          /\ e2 = e1 + 1
          /\ FileOfEnsure(e1) = DerivedArtifact(entries[k].path, ".mzml")
          /\ FileOfEnsure(e2) = DerivedArtifact(entries[k].path, ".json")

\* the calls of entry k are for the mzml file in its first ensure-link and for
\* the json file in a second one, and there is no third
MzmlBeforeJson(k) ==
    LET es    == EnsuresOfLine(k)
        first == CHOOSE e \in es : \A o \in es : e <= o
        mzml  == DerivedArtifact(entries[k].path, ".mzml")
        json  == DerivedArtifact(entries[k].path, ".json")
    IN  /\ Cardinality(es) <= 2
        /\ \A j \in CallsOfLine(k) :
              call_log[j].file = IF call_log[j].ensure = first THEN mzml ELSE json

AmbiguousQuery == \E j \in CallsOfOp("get_folders") : Len(call_log[j].result) > 1

\* entry k is one main calls ensure_library_link for
Eligible(k) ==
    /\ entries[k].allowed
    /\ ResultsOnlyMode => ConvertedLocally(k)

\* every line was handled once, in input order, and every eligible one was
\* processed, whatever was rejected before it
HandledEveryLine ==
    /\ line_no = Len(raw_list) + 1
    /\ Len(entries) = Len(raw_list)
    /\ \A k \in 1..Len(raw_list) :
          /\ entries[k].path = ReadPath(raw_list[k])
          /\ entries[k].allowed = is_allowed_raw_path(ReadPath(raw_list[k]))
          /\ Eligible(k) <=> CallsOfLine(k) # {}
    /\ \A i, j \in LogIdx : i < j => call_log[i].line <= call_log[j].line

\* every link_to_data_library call that left its loop made one iteration, with
\* one query, per component of the directory
OneIterationPerComponent ==
    \A e \in 1..ensure_no : (CallsOfEnsure(e) # {} /\ Resolved(e)) =>
        Len(QueriesOf(e)) = Len(DirComponentsOf(e))

\* the lines are taken one after the other, none twice and none left out
OneLineAtATime ==
    /\ line_no' \in {line_no, line_no + 1}
    /\ \/ entries' = entries
       \/ /\ Len(entries') = Len(entries) + 1
          /\ Len(entries') = line_no
          /\ SubSeq(entries', 1, Len(entries)) = entries

\* C14: for a finite input list, with every remote call returning, the run
\* comes to its end unless a folder query is ambiguous; it ends only by
\* exhausting the list or by the ambiguity error; at its end every line has
\* been handled exactly once in input order, a rejected line has not stopped
\* it and every eligible line is processed; every folder-resolution loop ends
\* after one iteration per path component.
C14_RunTerminatesHandlingEveryLine ==
    /\ <>(pc = "done" \/ AmbiguousQuery)
    /\ [](pc = "crashed" => AmbiguousQuery)
    /\ [](pc = "done" => HandledEveryLine)
    /\ []OneIterationPerComponent
    /\ [][pc # "setup" => OneLineAtATime]_vars

\* a finished run without ambiguity that rejected its first line and linked the
\* file of its second, creating two folders for it
C14_Witness ==
    /\ pc = "done"
    /\ ~AmbiguousQuery
    /\ Len(entries) = 2
    /\ ~entries[1].allowed
    /\ Eligible(2)
    /\ \E e \in 1..ensure_no :
          /\ CallsOfEnsure(e) # {}
          /\ Resolved(e)
          /\ Len(QueriesOf(e)) = 2

(***************************************************************************)
(* C15                                                                     *)
(***************************************************************************)
\* the ids of the folders of the index
IndexIds == {library_folders[k].id : k \in 1..Len(library_folders)}

\* the ids of the folders the run has created
CreatedIds == {call_log[j].result[1] : j \in CallsOfOp("create_folder")}

\* the index is what the server listed when the run started
IndexIsStartupListing ==
    pc # "setup" => library_folders = ListFolders(initial_library.folders)

\* C15: the folder index fetched at startup is changed by no operation of the
\* run: after any sequence of lookups, folder creations, uploads and workflow
\* invocations it equals the listing of the library as it was at startup; so
\* no folder created during the run is in the index, and get_library_dataset
\* looks into startup folders only.
C15_IndexNeverChanges ==
    /\ []IndexIsStartupListing
    /\ [](CreatedIds \cap IndexIds = {})
    /\ [](\A j \in CallsOfOp("show_folder") :
             /\ call_log[j].folder_id \in IndexIds
             /\ call_log[j].folder_id \notin CreatedIds)
    /\ [][pc # "setup" => library_folders' = library_folders]_vars

\* a finished run that created a folder, uploaded a file into it and, for a
\* later line with a file of the same directory, looked up without it
C15_Witness ==
    /\ pc = "done"
    /\ IndexIsStartupListing
    /\ CallsOfOp("invoke_workflow") # {}
    /\ \E j \in CallsOfOp("create_folder") :
          /\ call_log[j].result[1] \notin IndexIds
          /\ \E u \in CallsOfOp("upload") :
                /\ call_log[u].ensure = call_log[j].ensure
                /\ call_log[u].folder_id = call_log[j].result[1]
          /\ \E e \in (call_log[j].ensure + 1)..ensure_no :
                /\ CallsOfEnsure(e) # {}
                /\ "/" \o DirectoryOf(FileOfEnsure(e)) = FolderOf(call_log[j].result[1]).name
                /\ \A i \in CallsOfEnsure(e) : call_log[i].op # "show_folder"

(***************************************************************************)
(* C16                                                                     *)
(***************************************************************************)
\* the lookup of the e-th ensure_library_link call found the file
FoundByLookup(e) ==
    /\ FoundIds(e) # {}
    /\ \A j \in CallsOfEnsure(e) : call_log[j].op = "show_folder"

\* C16: when a first run in import-raw-only mode has completed on an input list
\* and the script is started again on the same list against the library the
\* first run left, fetching the folder index anew, the second run issues no
\* create_folder and no upload call: the names the resolver created are the
\* names the lookup matches, so every file is found and the run completes.
C16_SecondRunCreatesAndUploadsNothing ==
    run_no = 2 =>
        /\ CallsOfOp("create_folder") = {}
        /\ CallsOfOp("upload") = {}
        /\ pc \notin {"resolve", "crashed"}
        /\ remote_folders = initial_library.folders
        /\ remote_datasets = initial_library.datasets
        /\ \A k \in 1..Len(entries) : (entries[k].allowed /\ Completed(k)) =>
              \E e \in EnsuresOfLine(k) : FoundByLookup(e)

\* a finished second run over two lines whose files the first run had uploaded
\* into folders it had created, one of them two levels deep
C16_Witness ==
    /\ run_no = 2
    /\ pc = "done"
    /\ Len(entries) = 2
    /\ entries[1].path # entries[2].path
    /\ \A k \in 1..2 : entries[k].allowed /\ \E e \in EnsuresOfLine(k) : FoundByLookup(e)
    /\ Len(initial_library.folders) = 4
    /\ Len(initial_library.datasets) = 2
    /\ \A d \in 1..2 : initial_library.datasets[d].file_type = "thermo.raw"

====
